---------------------------- MODULE Spec2Model ----------------------------
(***************************************************************************)
(* Lexical context classifier, safe-edit gate and safe replacement of the  *)
(* code fixer (contextAnalyzer.js, globalFunction.jsx).                    *)
(*                                                                         *)
(* A buffer is a sequence of one-character strings.  JavaScript offsets    *)
(* are 0-based: CharAt(code, i) is code[i] of the source.                  *)
(***************************************************************************)
EXTENDS Integers, Sequences, FiniteSets, TLC

VARIABLES
  contextCache,   \* ContextAnalyzer.contextCache of the shared analyzer
  ret,            \* the call in progress: its arguments and its result
  prev,           \* the classification the caller got before this one
  fixHistory,     \* CodeValidator.fixHistory of the shared validator
  codeSnapshots,  \* CodeValidator.codeSnapshots
  clock,          \* the clock new Date() reads
  fixers,         \* FixerRegistry.fixers
  fixerInfo,      \* FixerRegistry.fixerInfo
  initialized,    \* FixerRegistry.initialized
  discovering,    \* the calls of autoDiscoverFixers suspended at their await
  discoveries     \* the runs of registerExistingFixers since the last clear()

validatorVars == <<fixHistory, codeSnapshots, clock>>
registryVars == <<fixers, fixerInfo, initialized, discovering, discoveries>>

vars == <<contextCache, ret, prev, validatorVars, registryVars>>

(***************************************************************************)
(* Characters and JavaScript values                                        *)
(***************************************************************************)
Undefined == "undefined"

SQ == "'"
DQ == "\""
\* the backtick, which a TLA+ string cannot hold
BT == "BACKTICK"
BS == "\\"
NL == "\n"

\* /\s/ of couldBeRegexStart
WhitespaceChars == {" ", "\t", "\n", "\r", "\f"}

\* /[a-zA-Z_$]/ of couldBeRegexStart
WordChars ==
  {"a","b","c","d","e","f","g","h","i","j","k","l","m","n","o","p","q","r",
   "s","t","u","v","w","x","y","z","A","B","C","D","E","F","G","H","I","J",
   "K","L","M","N","O","P","Q","R","S","T","U","V","W","X","Y","Z","_","$"}

regexPreceders ==
  {"(", "[", "{", ",", ";", ":", "!", "&", "|", "?", "+", "-", "*", "/",
   "%", "=", "<", ">", "^", "~"}

keywords ==
  { <<"r","e","t","u","r","n">>, <<"t","h","r","o","w">>, <<"c","a","s","e">>,
    <<"i","n">>, <<"o","f">>, <<"d","e","l","e","t","e">>, <<"v","o","i","d">>,
    <<"t","y","p","e","o","f">>, <<"n","e","w">>,
    <<"i","n","s","t","a","n","c","e","o","f">> }

\* code[i] of the source: undefined outside the buffer
CharAt(code, i) == IF i >= 0 /\ i < Len(code) THEN code[i + 1] ELSE Undefined

\* code.slice(from, to) for 0 <= from, to <= code.length
Slice(code, from, to) ==
  IF to <= from THEN << >> ELSE SubSeq(code, from + 1, to)

\* code.substring(from, to): both ends clamped into [0, length], swapped if needed
Clamp(code, n) == IF n < 0 THEN 0 ELSE IF n > Len(code) THEN Len(code) ELSE n

Substring(code, from, to) ==
  LET a == Clamp(code, from)
      b == Clamp(code, to)
  IN  IF a <= b THEN Slice(code, a, b) ELSE Slice(code, b, a)

(***************************************************************************)
(* ContextAnalyzer.couldBeRegexStart and isEscaped                         *)
(***************************************************************************)
RECURSIVE SkipWhitespaceBack(_, _)
SkipWhitespaceBack(code, i) ==
  IF i >= 0 /\ CharAt(code, i) \in WhitespaceChars
  THEN SkipWhitespaceBack(code, i - 1)
  ELSE i

RECURSIVE WordStartBack(_, _)
WordStartBack(code, wordStart) ==
  IF wordStart >= 0 /\ CharAt(code, wordStart) \in WordChars
  THEN WordStartBack(code, wordStart - 1)
  ELSE wordStart

couldBeRegexStart(code, position) ==
  LET i == SkipWhitespaceBack(code, position - 1)
  IN  IF i < 0 THEN TRUE
      ELSE IF CharAt(code, i) \in regexPreceders THEN TRUE
      ELSE Slice(code, WordStartBack(code, i) + 1, i + 1) \in keywords

RECURSIVE EscapeCount(_, _)
EscapeCount(code, i) ==
  IF i >= 0 /\ CharAt(code, i) = BS THEN 1 + EscapeCount(code, i - 1) ELSE 0

isEscaped(code, position) == EscapeCount(code, position - 1) % 2 = 1

(***************************************************************************)
(* ContextAnalyzer.analyzeAbsolutePosition: the scan over [0, position)    *)
(***************************************************************************)
DefaultContext ==
  [inString |-> FALSE, inComment |-> FALSE, inRegex |-> FALSE,
   inTemplate |-> FALSE, inTemplateExpression |-> FALSE,
   stringChar |-> Undefined, commentType |-> Undefined]

\* the scanner's locals before the loop
ScanInit ==
  [i |-> 0, inSingleQuote |-> FALSE, inDoubleQuote |-> FALSE,
   inTemplate |-> FALSE, inSingleComment |-> FALSE, inMultiComment |-> FALSE,
   inRegex |-> FALSE, templateDepth |-> 0]

\* the regex step without the "End regex" test
RegexStepNoEnd(code, s) ==
  LET char == CharAt(code, s.i)
  IN  IF /\ ~s.inSingleQuote /\ ~s.inDoubleQuote /\ ~s.inTemplate
         /\ char = "/" /\ couldBeRegexStart(code, s.i)
      THEN TRUE ELSE s.inRegex

\* "Handle regular expressions" then "End regex", both on the same character
RegexStep(code, s) ==
  LET char == CharAt(code, s.i)
      started == IF /\ ~s.inSingleQuote /\ ~s.inDoubleQuote /\ ~s.inTemplate
                    /\ char = "/" /\ couldBeRegexStart(code, s.i)
                 THEN TRUE ELSE s.inRegex
  IN  IF started /\ char = "/" /\ ~isEscaped(code, s.i) THEN FALSE ELSE started

\* the single-quote toggle without its "not in a double-quoted string" guard
SingleQuoteStepUnguarded(char, s) ==
  IF char = SQ /\ ~s.inTemplate
  THEN ~s.inSingleQuote ELSE s.inSingleQuote

\* "Single quotes"
SingleQuoteStep(char, s) ==
  IF char = SQ /\ ~s.inDoubleQuote /\ ~s.inTemplate
  THEN ~s.inSingleQuote ELSE s.inSingleQuote

\* "Double quotes" (reads the single-quote state just updated)
DoubleQuoteStep(char, s, sq) ==
  IF char = DQ /\ ~sq /\ ~s.inTemplate
  THEN ~s.inDoubleQuote ELSE s.inDoubleQuote

\* "Template literals": the backtick
BacktickStep(char, s, sq, dq) ==
  IF char = BT /\ ~sq /\ ~dq
  THEN IF s.inTemplate
       THEN [inTemplate |-> s.templateDepth - 1 # 0,
             templateDepth |-> s.templateDepth - 1]
       ELSE [inTemplate |-> TRUE, templateDepth |-> 1]
  ELSE [inTemplate |-> s.inTemplate, templateDepth |-> s.templateDepth]

\* the substitution step without the } that closes the substitution
TemplateExprStepNoClose(char, nextChar, t, i) ==
  IF t.inTemplate /\ char = "$" /\ nextChar = "{"
  THEN [templateDepth |-> t.templateDepth + 1, i |-> i + 2]
  ELSE [templateDepth |-> t.templateDepth, i |-> i + 1]

\* "Template expressions": ${ opens (two characters), } closes while depth > 1
TemplateExprStep(char, nextChar, t, i) ==
  IF t.inTemplate /\ char = "$" /\ nextChar = "{"
  THEN [templateDepth |-> t.templateDepth + 1, i |-> i + 2]
  ELSE IF t.inTemplate /\ char = "}" /\ t.templateDepth > 1
       THEN [templateDepth |-> t.templateDepth - 1, i |-> i + 1]
       ELSE [templateDepth |-> t.templateDepth, i |-> i + 1]

\* "Handle strings and templates (skip if in regex or comment)"
StringStep(code, s) ==
  LET char == CharAt(code, s.i)
      nextChar == CharAt(code, s.i + 1)
      sq == SingleQuoteStep(char, s)
      dq == DoubleQuoteStep(char, s, sq)
      t  == BacktickStep(char, s, sq, dq)
      e  == TemplateExprStep(char, nextChar, t, s.i)
  IN  [s EXCEPT !.inSingleQuote = sq, !.inDoubleQuote = dq,
                !.inTemplate = t.inTemplate,
                !.templateDepth = e.templateDepth, !.i = e.i]

\* the test for // without its "not inside a string or template" guard
SingleCommentOpensAnywhere(char, nextChar, s) ==
  /\ ~s.inMultiComment /\ ~s.inRegex
  /\ char = "/" /\ nextChar = "/"

\* "Handle single-line comments": may // open a comment here
SingleCommentOpens(char, nextChar, s) ==
  /\ ~s.inSingleQuote /\ ~s.inDoubleQuote /\ ~s.inTemplate
  /\ ~s.inMultiComment /\ ~s.inRegex
  /\ char = "/" /\ nextChar = "/"

\* "Handle multi-line comments": may /* open a comment here
MultiCommentOpens(char, nextChar, s, sc) ==
  /\ ~s.inSingleQuote /\ ~s.inDoubleQuote /\ ~s.inTemplate
  /\ ~sc /\ ~s.inRegex
  /\ char = "/" /\ nextChar = "*"

\* "End multi-line comment"
MultiCommentCloses(char, nextChar, s) ==
  s.inMultiComment /\ char = "*" /\ nextChar = "/"

\* one iteration of the while loop
ScanStep(code, s) ==
  LET char == CharAt(code, s.i)
      nextChar == CharAt(code, s.i + 1)
  IN
  IF char = BS /\ (s.inSingleQuote \/ s.inDoubleQuote \/ s.inTemplate \/ s.inRegex)
  THEN [s EXCEPT !.i = @ + 2]
  ELSE IF SingleCommentOpens(char, nextChar, s)
  THEN [s EXCEPT !.inSingleComment = TRUE, !.i = @ + 2]
  ELSE
    LET sc == IF s.inSingleComment /\ char = NL THEN FALSE ELSE s.inSingleComment
    IN
    IF MultiCommentOpens(char, nextChar, s, sc)
    THEN [s EXCEPT !.inSingleComment = sc, !.inMultiComment = TRUE, !.i = @ + 2]
    ELSE IF MultiCommentCloses(char, nextChar, s)
    THEN [s EXCEPT !.inSingleComment = sc, !.inMultiComment = FALSE, !.i = @ + 2]
    ELSE IF sc \/ s.inMultiComment
    THEN [s EXCEPT !.inSingleComment = sc, !.i = @ + 1]
    ELSE
      LET rx == RegexStep(code, s)
          s1 == [s EXCEPT !.inSingleComment = sc, !.inRegex = rx]
      IN  IF rx THEN [s1 EXCEPT !.i = @ + 1] ELSE StringStep(code, s1)

\* the loop condition with || for &&
ScanContinuesEither(code, position, s) == s.i < position \/ s.i < Len(code)

\* while (i < position && i < code.length)
ScanContinues(code, position, s) == s.i < position /\ s.i < Len(code)

RECURSIVE Scan(_, _, _)
Scan(code, position, s) ==
  IF ScanContinues(code, position, s)
  THEN Scan(code, position, ScanStep(code, s))
  ELSE s

\* "Set context based on current state"
ContextOf(s) ==
  LET inString == s.inSingleQuote \/ s.inDoubleQuote
      inComment == s.inSingleComment \/ s.inMultiComment
  IN  [inString |-> inString,
       inComment |-> inComment,
       inRegex |-> s.inRegex,
       inTemplate |-> s.inTemplate,
       inTemplateExpression |-> s.inTemplate /\ s.templateDepth > 1,
       stringChar |-> IF s.inTemplate THEN BT
                      ELSE IF inString
                           THEN (IF s.inSingleQuote THEN SQ ELSE DQ)
                           ELSE Undefined,
       commentType |-> IF inComment
                       THEN (IF s.inSingleComment THEN "single" ELSE "multi")
                       ELSE Undefined]

analyzeAbsolutePosition(code, position) == ContextOf(Scan(code, position, ScanInit))

(***************************************************************************)
(* ContextAnalyzer.getAbsolutePosition                                     *)
(***************************************************************************)
\* index (1-based) of the first newline of code at or after index k, 0 if none
RECURSIVE NextNewline(_, _)
NextNewline(code, k) ==
  IF k > Len(code) THEN 0
  ELSE IF code[k] = NL THEN k ELSE NextNewline(code, k + 1)

\* code.split('\n'): never empty, the empty buffer has one empty line
RECURSIVE SplitLines(_)
SplitLines(code) ==
  LET n == NextNewline(code, 1)
  IN  IF n = 0 THEN <<code>>
      ELSE <<SubSeq(code, 1, n - 1)>> \o SplitLines(SubSeq(code, n + 1, Len(code)))

\* for (let i = 0; i < line - 1; i++) position += lines[i].length + 1
RECURSIVE PositionLoop(_, _, _, _)
PositionLoop(lines, i, line, position) ==
  IF i < line - 1
  THEN PositionLoop(lines, i + 1, line, position + Len(lines[i + 1]) + 1)
  ELSE position

\* lines[i] is undefined for i >= lines.length and reading its length raises a
\* TypeError: the loop reaches such an i when line - 1 > lines.length
PositionThrows(code, line) == line - 1 > Len(SplitLines(code))

\* getAbsolutePosition with the column taken as 0-based
getAbsolutePositionZeroBased(code, line, column) ==
  IF PositionThrows(code, line)
  THEN [threw |-> TRUE, value |-> 0]
  ELSE [threw |-> FALSE,
        value |-> PositionLoop(SplitLines(code), 0, line, 0) + column]

getAbsolutePosition(code, line, column) ==
  IF PositionThrows(code, line)
  THEN [threw |-> TRUE, value |-> 0]
  ELSE [threw |-> FALSE,
        value |-> PositionLoop(SplitLines(code), 0, line, 0) + column - 1]

(***************************************************************************)
(* ContextAnalyzer.analyzePosition and findSafeFixZone, over the cache     *)
(***************************************************************************)
\* `${code.length}-${absolutePos}`
cacheKey(code, absolutePos) == <<Len(code), absolutePos>>

\* the call's outcome and the cache it leaves
analyzePosition(cache, code, line, column) ==
  LET p == getAbsolutePosition(code, line, column)
      key == cacheKey(code, p.value)
  IN  IF p.threw
      THEN [threw |-> TRUE, context |-> DefaultContext, cache |-> cache]
      ELSE IF key \in DOMAIN cache
      THEN [threw |-> FALSE, context |-> cache[key], cache |-> cache]
      ELSE LET context == analyzeAbsolutePosition(code, p.value)
           IN  [threw |-> FALSE, context |-> context,
                cache |-> cache @@ (key :> context)]

\* the vetoes without the exemption of template substitutions
SafeZoneVerdictNoExemption(context) ==
  IF context.inString
  THEN [isSafe |-> FALSE, reason |-> <<"string literal", context.stringChar>>]
  ELSE IF context.inComment
  THEN [isSafe |-> FALSE, reason |-> <<"comment", context.commentType>>]
  ELSE IF context.inRegex
  THEN [isSafe |-> FALSE, reason |-> <<"regular expression literal">>]
  ELSE IF context.inTemplate
  THEN [isSafe |-> FALSE, reason |-> <<"template literal text">>]
  ELSE [isSafe |-> TRUE, reason |-> <<"safe for modifications">>]

\* the vetoes, in the order of the source
SafeZoneVerdict(context) ==
  IF context.inString
  THEN [isSafe |-> FALSE, reason |-> <<"string literal", context.stringChar>>]
  ELSE IF context.inComment
  THEN [isSafe |-> FALSE, reason |-> <<"comment", context.commentType>>]
  ELSE IF context.inRegex
  THEN [isSafe |-> FALSE, reason |-> <<"regular expression literal">>]
  ELSE IF context.inTemplate /\ ~context.inTemplateExpression
  THEN [isSafe |-> FALSE, reason |-> <<"template literal text">>]
  ELSE [isSafe |-> TRUE, reason |-> <<"safe for modifications">>]

findSafeFixZone(cache, code, line, column) ==
  LET a == analyzePosition(cache, code, line, column)
      v == SafeZoneVerdict(a.context)
  IN  [threw |-> a.threw, isSafe |-> v.isSafe, reason |-> v.reason,
       context |-> a.context, cache |-> a.cache]

(***************************************************************************)
(* CodeValidator.validateSyntax and checkCommonSyntaxIssues                *)
(***************************************************************************)
Openers == {"(", "[", "{"}
Closers == {")", "]", "}"}
brackets == ("(" :> ")") @@ ("[" :> "]") @@ ("{" :> "}")

\* the for loop over the buffer: the stack of open brackets and the issues so far
RECURSIVE BracketScan(_, _, _, _)
BracketScan(code, i, stack, issues) ==
  IF i >= Len(code) THEN [stack |-> stack, issues |-> issues]
  ELSE LET char == CharAt(code, i)
       IN  IF char \in Openers
           THEN BracketScan(code, i + 1,
                            Append(stack, [char |-> char, pos |-> i]), issues)
           ELSE IF char \in Closers
           THEN LET popped == IF stack = << >> THEN stack
                              ELSE SubSeq(stack, 1, Len(stack) - 1)
                    bad == \/ stack = << >>
                           \/ brackets[stack[Len(stack)].char] # char
                IN  BracketScan(code, i + 1, popped,
                      IF bad
                      THEN Append(issues, [kind |-> "Unmatched bracket",
                                           char |-> char, pos |-> i])
                      ELSE issues)
           ELSE BracketScan(code, i + 1, stack, issues)

\* the issues of the bracket scan: unmatched closers, then the unclosed openers
BracketIssues(code) ==
  LET r == BracketScan(code, 0, << >>, << >>)
  IN  r.issues \o [k \in 1..Len(r.stack) |->
                     [kind |-> "Unclosed bracket",
                      char |-> r.stack[k].char, pos |-> r.stack[k].pos]]

\* The verdicts of the two external parsers are inputs of the call:
\*   "FunctionThrows"  new Function(code) raises
\*   "BabelThrows"     new Function(code) returns, parse(code) raises
\*   "Accepts"         both accept the buffer
ParserVerdicts == {"FunctionThrows", "BabelThrows", "Accepts"}

checkCommonSyntaxIssues(code, parser) ==
  BracketIssues(code) \o
    (IF parser = "BabelThrows"
     THEN << [kind |-> "Syntax error", char |-> Undefined, pos |-> -1] >>
     ELSE << >>)

\* validateSyntax without the check of the common syntax issues
validateSyntaxNoIssueCheck(code, parser) ==
  IF parser = "FunctionThrows"
  THEN [isValid |-> FALSE,
        warnings |-> << [kind |-> "Code contains syntax errors that prevent execution",
                         char |-> Undefined, pos |-> -1] >>]
  ELSE [isValid |-> TRUE, warnings |-> << >>]

validateSyntax(code, parser) ==
  IF parser = "FunctionThrows"
  THEN [isValid |-> FALSE,
        warnings |-> << [kind |-> "Code contains syntax errors that prevent execution",
                         char |-> Undefined, pos |-> -1] >>]
  ELSE LET syntaxIssues == checkCommonSyntaxIssues(code, parser)
       IN  IF Len(syntaxIssues) > 0
           THEN [isValid |-> FALSE, warnings |-> syntaxIssues]
           ELSE [isValid |-> TRUE, warnings |-> << >>]

(***************************************************************************)
(* safeReplace of globalFunction.jsx                                       *)
(***************************************************************************)
\* beforeText + replacement + afterText
Splice(code, absolutePos, length, replacement) ==
  Substring(code, 0, absolutePos) \o replacement
    \o Substring(code, absolutePos + length, Len(code))

safeReplace(cache, code, line, column, length, replacement, parser) ==
  LET safeZone == findSafeFixZone(cache, code, line, column)
  IN  IF safeZone.threw
      THEN [success |-> FALSE, code |-> code, message |-> "Error during replacement",
            warnings |-> << [kind |-> "Unexpected error occurred during text replacement",
                             char |-> Undefined, pos |-> -1] >>,
            cache |-> safeZone.cache]
      ELSE IF ~safeZone.isSafe
      THEN [success |-> FALSE, code |-> code, message |-> "Cannot replace text",
            warnings |-> << [kind |-> "Position is not safe for modification",
                             char |-> Undefined, pos |-> -1] >>,
            cache |-> safeZone.cache]
      ELSE LET absolutePos == getAbsolutePosition(code, line, column).value
               newCode == Splice(code, absolutePos, length, replacement)
               validation == validateSyntax(newCode, parser)
           IN  IF ~validation.isValid
               THEN [success |-> FALSE, code |-> code,
                     message |-> "Replacement would create invalid syntax",
                     warnings |-> validation.warnings, cache |-> safeZone.cache]
               ELSE [success |-> TRUE, code |-> newCode,
                     message |-> "Text replaced successfully",
                     warnings |-> << >>, cache |-> safeZone.cache]

(***************************************************************************)
(* The shared analyzer instance of globalFunction.jsx: its cache, and the  *)
(* last call with its arguments and its result                             *)
(***************************************************************************)
MaxLine == 3
MaxColumn == 4
MaxCacheEntries == 2

Lines == 1..MaxLine
Columns == 1..MaxColumn
ReplaceLengths == {1}
Replacements == { <<"x">>, <<"(">> }

\* the buffers handed to the shared instance; several have the same length
Buffers ==
  { <<DQ, "/", "/", DQ>>,
    <<"/", "/", "a", "b">>,
    <<"a", NL, "b", "c">>,
    <<BT, "$", "{", "a", "}", BT>> }

NoCall ==
  [op |-> "none", code |-> << >>, line |-> 0, column |-> 0, position |-> 0,
   length |-> 0, replacement |-> << >>, parser |-> "Accepts",
   threw |-> FALSE, context |-> DefaultContext,
   isSafe |-> FALSE, reason |-> << >>,
   success |-> FALSE, outCode |-> << >>, message |-> "", warnings |-> << >>,
   isValid |-> FALSE, fixedCode |-> << >>, snapshotId |-> "",
   identical |-> FALSE, hasChanges |-> FALSE,
   ruleId |-> "", fixer |-> "", enabled |-> FALSE, result |-> << >>]

\* the state the constructors of the shared objects leave
Constructed ==
  /\ contextCache = << >>
  /\ prev = NoCall
  /\ fixHistory = << >>
  /\ codeSnapshots = << >>
  /\ clock = 0
  /\ fixers = << >>
  /\ fixerInfo = << >>
  /\ initialized = FALSE
  /\ discovering = 0
  /\ discoveries = 0

Init ==
  /\ Constructed
  /\ ret = NoCall

AnalyzePosition(code, line, column) ==
  /\ ret.op = "none"
  /\ \E r \in { analyzePosition(contextCache, code, line, column) } :
       /\ Cardinality(DOMAIN r.cache) <= MaxCacheEntries
       /\ contextCache' = r.cache
       /\ ret' = [NoCall EXCEPT !.op = "analyzePosition", !.code = code,
                                !.line = line, !.column = column,
                                !.threw = r.threw, !.context = r.context]
  /\ UNCHANGED <<prev, validatorVars, registryVars>>

FindSafeFixZone(code, line, column) ==
  /\ ret.op = "none"
  /\ \E r \in { findSafeFixZone(contextCache, code, line, column) } :
       /\ Cardinality(DOMAIN r.cache) <= MaxCacheEntries
       /\ contextCache' = r.cache
       /\ ret' = [NoCall EXCEPT !.op = "findSafeFixZone", !.code = code,
                                !.line = line, !.column = column,
                                !.threw = r.threw, !.context = r.context,
                                !.isSafe = r.isSafe, !.reason = r.reason]
  /\ UNCHANGED <<prev, validatorVars, registryVars>>

SafeReplace(code, line, column, length, replacement, parser) ==
  /\ ret.op = "none"
  /\ \E r \in { safeReplace(contextCache, code, line, column, length, replacement, parser) } :
       /\ Cardinality(DOMAIN r.cache) <= MaxCacheEntries
       /\ contextCache' = r.cache
       /\ ret' = [NoCall EXCEPT !.op = "safeReplace", !.code = code,
                                !.line = line, !.column = column,
                                !.length = length, !.replacement = replacement,
                                !.parser = parser,
                                !.success = r.success, !.outCode = r.code,
                                !.message = r.message, !.warnings = r.warnings]
  /\ UNCHANGED <<prev, validatorVars, registryVars>>

ClearCache ==
  /\ ret.op = "none"
  /\ contextCache' = << >>
  /\ ret' = [NoCall EXCEPT !.op = "clearCache"]
  /\ UNCHANGED <<prev, validatorVars, registryVars>>

\* every operation is synchronous: the caller has the result of a call before
\* it makes the next one
Return ==
  /\ ret.op # "none"
  /\ ret' = NoCall
  /\ UNCHANGED <<contextCache, prev, validatorVars, registryVars>>

Next ==
  \/ \E code \in Buffers, line \in Lines, column \in Columns :
        AnalyzePosition(code, line, column)
  \/ \E code \in Buffers, line \in Lines, column \in Columns :
        FindSafeFixZone(code, line, column)
  \/ \E code \in Buffers, line \in Lines, column \in Columns,
        length \in ReplaceLengths, replacement \in Replacements,
        parser \in ParserVerdicts :
        SafeReplace(code, line, column, length, replacement, parser)
  \/ ClearCache
  \/ Return

Spec == Init /\ [][Next]_vars

(***************************************************************************)
(* The shared analyzer, with a caller that keeps the context of its last   *)
(* classification to compare it with the next one                          *)
(***************************************************************************)
\* two buffers of the same length
IdemBuffers == { <<DQ, "/", "/", DQ>>, <<"/", "/", "a", "b">> }
IdemLines == {1}

Remember ==
  /\ ret.op # "none"
  /\ prev' = IF ret.op = "analyzePosition" THEN ret ELSE prev
  /\ ret' = NoCall
  /\ UNCHANGED <<contextCache, validatorVars, registryVars>>

NextIdem ==
  \/ \E code \in IdemBuffers, line \in IdemLines, column \in Columns :
        AnalyzePosition(code, line, column)
  \/ ClearCache
  \/ Remember

SpecIdem == Init /\ [][NextIdem]_vars

(***************************************************************************)
(* CodeValidator: the fix history and the snapshots                        *)
(***************************************************************************)
\* if (this.fixHistory.length > 100)
MaxHistory == 100

\* recordFix with pop() for shift(): the newest entry is dropped
recordFixDropsNewest(history, fixRecord) ==
  LET pushed == Append(history, fixRecord)
  IN  IF Len(pushed) > MaxHistory THEN SubSeq(pushed, 1, Len(pushed) - 1) ELSE pushed

\* push, then shift while over the limit
recordFix(history, fixRecord) ==
  LET pushed == Append(history, fixRecord)
  IN  IF Len(pushed) > MaxHistory THEN Tail(pushed) ELSE pushed

\* Map.set(snapshotId, code)
createSnapshot(snapshots, code, snapshotId) ==
  [k \in DOMAIN snapshots \cup {snapshotId} |->
     IF k = snapshotId THEN code ELSE snapshots[k]]

\* !snapshot: no entry under the id, or the empty string stored under it
SnapshotMissing(snapshots, snapshotId) ==
  snapshotId \notin DOMAIN snapshots \/ snapshots[snapshotId] = << >>

compareWithSnapshot(snapshots, currentCode, snapshotId) ==
  IF SnapshotMissing(snapshots, snapshotId)
  THEN [threw |-> TRUE, identical |-> FALSE, hasChanges |-> FALSE]
  ELSE [threw |-> FALSE,
        identical |-> currentCode = snapshots[snapshotId],
        hasChanges |-> currentCode # snapshots[snapshotId]]

\* CodeValidator.clear without the clearing of the snapshots
clearKeepsSnapshots(history, snapshots) ==
  [fixHistory |-> << >>, codeSnapshots |-> snapshots]

\* CodeValidator.clear
clear(history, snapshots) ==
  [fixHistory |-> << >>, codeSnapshots |-> << >>]

MaxClock == 102
MaxSnapshotFixes == 2

FixRules == {"semi"}
SnapshotIds == {"s1", "s2"}
SnapshotContents == { << >>, <<"a">>, <<"a", NL>> }
ValidatorBuffer == <<"/", "/", "a", "b">>

\* new Date() reads the clock, which has advanced since the last reading
RecordFix(ruleId, line, column, originalText, fixedText) ==
  /\ ret.op = "none"
  /\ clock < MaxClock
  /\ clock' = clock + 1
  /\ fixHistory' = recordFix(fixHistory,
                             [ruleId |-> ruleId, line |-> line, column |-> column,
                              originalText |-> originalText, fixedText |-> fixedText,
                              timestamp |-> clock'])
  /\ ret' = [NoCall EXCEPT !.op = "recordFix", !.ruleId = ruleId,
                           !.line = line, !.column = column]
  /\ UNCHANGED <<contextCache, prev, codeSnapshots, registryVars>>

CreateSnapshot(code, snapshotId) ==
  /\ ret.op = "none"
  /\ codeSnapshots' = createSnapshot(codeSnapshots, code, snapshotId)
  /\ ret' = [NoCall EXCEPT !.op = "createSnapshot", !.code = code,
                           !.snapshotId = snapshotId]
  /\ UNCHANGED <<contextCache, prev, fixHistory, clock, registryVars>>

CompareWithSnapshot(currentCode, snapshotId) ==
  /\ ret.op = "none"
  /\ \E r \in { compareWithSnapshot(codeSnapshots, currentCode, snapshotId) } :
       ret' = [NoCall EXCEPT !.op = "compareWithSnapshot", !.code = currentCode,
                             !.snapshotId = snapshotId, !.threw = r.threw,
                             !.identical = r.identical, !.hasChanges = r.hasChanges]
  /\ UNCHANGED <<contextCache, prev, validatorVars, registryVars>>

\* clearUtilityCache of globalFunction.jsx: both shared objects
ClearUtilityCache ==
  /\ ret.op = "none"
  /\ contextCache' = << >>
  /\ \E r \in { clear(fixHistory, codeSnapshots) } :
       /\ fixHistory' = r.fixHistory
       /\ codeSnapshots' = r.codeSnapshots
  /\ ret' = [NoCall EXCEPT !.op = "clearUtilityCache"]
  /\ UNCHANGED <<prev, clock, registryVars>>

\* the fix history alone
NextHistory ==
  \/ \E ruleId \in FixRules : RecordFix(ruleId, 1, 1, <<"a">>, <<"b">>)
  \/ Return

SpecHistory == Init /\ [][NextHistory]_vars

\* the validator and the analyzer behind the utilities of globalFunction.jsx
NextValidator ==
  \/ \E ruleId \in FixRules :
        clock < MaxSnapshotFixes /\ RecordFix(ruleId, 1, 1, <<"a">>, <<"b">>)
  \/ \E code \in SnapshotContents, snapshotId \in SnapshotIds :
        CreateSnapshot(code, snapshotId)
  \/ \E code \in SnapshotContents, snapshotId \in SnapshotIds :
        CompareWithSnapshot(code, snapshotId)
  \/ \E column \in Columns : AnalyzePosition(ValidatorBuffer, 1, column)
  \/ ClearCache
  \/ ClearUtilityCache
  \/ Return

SpecValidator == Init /\ [][NextValidator]_vars

(***************************************************************************)
(* The classifier alone: analyzeAbsolutePosition applied to one buffer at  *)
(* every offset, over families of buffers                                  *)
(***************************************************************************)
MaxScanLen == 3
MaxPart == 2
MaxBeyond == 2

Seqs(S, n) == UNION { [1..k -> S] : k \in 0..n }

ScanAlphabet == {"a", " ", SQ, DQ, BT, BS, NL, "/", "*", "$", "{", "}"}

\* every buffer of at most MaxScanLen characters
SmallBuffers == Seqs(ScanAlphabet, MaxScanLen)

\* the buffers of the testable properties of the spec
ExQuotes == <<DQ, "a", " ", SQ, "b", SQ, " ", "c", DQ>>
ExDivision == <<"x", " ", "=", " ", "a", " ", "/", " ", "b">>
ExReturnRegex == <<"r", "e", "t", "u", "r", "n", " ", "/", "a", "b", "/">>
ExTemplate == <<BT, "a", "$", "{", "b", "}", "c", BT>>
ExTemplateComment == <<BT, "/", "/", "n", "o", "t", BT>>

\* a template literal: text, one substitution, text
TemplateTextChars == {"a", SQ, "/", "}"}
TemplateExprChars == {"b", DQ, "{", "}"}
TemplateFamily ==
  { <<BT>> \o t1 \o <<"$", "{">> \o e \o <<"}">> \o t2 \o <<BT>> :
      t1 \in Seqs(TemplateTextChars, MaxPart),
      e \in Seqs(TemplateExprChars, MaxPart),
      t2 \in Seqs(TemplateTextChars, 1) }

\* a quoted string after plain code: an opening quote, then any characters
QuoteBodyChars == {"a", SQ, DQ, BS, "/"}
QuotePrefixes == { << >>, <<"x", "=">> }
QuoteFamily ==
  { pre \o <<q>> \o w :
      pre \in QuotePrefixes, q \in {SQ, DQ},
      w \in Seqs(QuoteBodyChars, MaxPart + 2) }

\* a slash after a regex preceder or keyword, a body, a closing slash
RegexLeads ==
  { <<"(">>, <<"x", " ", "=", " ">>,
    <<"r", "e", "t", "u", "r", "n", " ">>, <<"t", "y", "p", "e", "o", "f", " ">> }
RegexBodies == Seqs({"a", "b"}, MaxPart) \ { << >> }
RegexFamily ==
  { lead \o <<"/">> \o body \o <<"/">> : lead \in RegexLeads, body \in RegexBodies }

\* a multi-line comment: the opener, a body, the closer, and code after it
CommentFamily ==
  { <<"/", "*">> \o body \o <<"*", "/">> \o tail :
      body \in Seqs({"/", "*", "a"}, MaxPart), tail \in { << >>, <<"a">> } }

ScanBuffers ==
  SmallBuffers \cup TemplateFamily \cup QuoteFamily \cup RegexFamily
    \cup CommentFamily
    \cup {ExQuotes, ExDivision, ExReturnRegex, ExTemplate, ExTemplateComment}

ScanOffsets(code) == (0 - MaxBeyond)..(Len(code) + MaxBeyond)

InitScan ==
  /\ Constructed
  /\ \E code \in ScanBuffers : ret = [NoCall EXCEPT !.code = code]

AnalyzeAbsolutePosition(position) ==
  /\ ret.op = "none"
  /\ ret' = [ret EXCEPT !.op = "analyzeAbsolutePosition",
                        !.position = position,
                        !.context = analyzeAbsolutePosition(ret.code, position)]
  /\ UNCHANGED <<contextCache, prev, validatorVars, registryVars>>

\* the caller has the context; the buffer stays the one under analysis
ReturnScan ==
  /\ ret.op # "none"
  /\ ret' = [NoCall EXCEPT !.code = ret.code]
  /\ UNCHANGED <<contextCache, prev, validatorVars, registryVars>>

NextScan ==
  \/ \E position \in ScanOffsets(ret.code) : AnalyzeAbsolutePosition(position)
  \/ ReturnScan

SpecScan == InitScan /\ [][NextScan]_vars

(***************************************************************************)
(* CodeValidator.validateSyntax and checkCommonSyntaxIssues, called on     *)
(* every short buffer of brackets                                          *)
(***************************************************************************)
MaxBracketLen == 3

BracketBuffers == Seqs(Openers \cup Closers \cup {"a"}, MaxBracketLen)

InitSyntax ==
  /\ Constructed
  /\ \E code \in BracketBuffers : ret = [NoCall EXCEPT !.code = code]

ValidateSyntax(parser) ==
  /\ ret.op = "none"
  /\ \E r \in { validateSyntax(ret.code, parser) } :
       ret' = [ret EXCEPT !.op = "validateSyntax", !.parser = parser,
                          !.isValid = r.isValid, !.warnings = r.warnings]
  /\ UNCHANGED <<contextCache, prev, validatorVars, registryVars>>

\* called on its own the method does not depend on new Function
CheckCommonSyntaxIssues(parser) ==
  /\ ret.op = "none"
  /\ ret' = [ret EXCEPT !.op = "checkCommonSyntaxIssues", !.parser = parser,
                        !.warnings = checkCommonSyntaxIssues(ret.code, parser)]
  /\ UNCHANGED <<contextCache, prev, validatorVars, registryVars>>

NextSyntax ==
  \/ \E parser \in ParserVerdicts : ValidateSyntax(parser)
  \/ \E parser \in {"BabelThrows", "Accepts"} : CheckCommonSyntaxIssues(parser)
  \/ ReturnScan

SpecSyntax == InitSyntax /\ [][NextSyntax]_vars

(***************************************************************************)
(* CodeValidator.validateSemantics and checkSemanticChanges                *)
(***************************************************************************)
importantKeywords ==
  <<"function", "class", "const", "let", "var", "if", "for", "while">>

\* the characters of each keyword
KeywordText ==
  [function |-> <<"f","u","n","c","t","i","o","n">>,
   class |-> <<"c","l","a","s","s">>,
   const |-> <<"c","o","n","s","t">>,
   let |-> <<"l","e","t">>,
   var |-> <<"v","a","r">>,
   if |-> <<"i","f">>,
   for |-> <<"f","o","r">>,
   while |-> <<"w","h","i","l","e">>]

\* \w of a regular expression: [A-Za-z0-9_]
RegexWordChars ==
  (WordChars \ {"$"}) \cup {"0","1","2","3","4","5","6","7","8","9"}

\* \b at offset p: exactly one of code[p - 1], code[p] is a \w character
WordBoundary(code, p) ==
  (CharAt(code, p - 1) \in RegexWordChars) # (CharAt(code, p) \in RegexWordChars)

\* (code.match(new RegExp(`\\b${keyword}\\b`, 'g')) || []).length
KeywordCount(code, keyword) ==
  LET text == KeywordText[keyword]
  IN  Cardinality({ i \in 0..(Len(code) - Len(text)) :
                      /\ Slice(code, i, i + Len(text)) = text
                      /\ WordBoundary(code, i)
                      /\ WordBoundary(code, i + Len(text)) })

\* code.split('\n').length
LineCount(code) == Len(SplitLines(code))

Abs(n) == IF n < 0 THEN 0 - n ELSE n

\* importantKeywords.forEach: one issue for each keyword whose count changed
RECURSIVE KeywordIssues(_, _, _)
KeywordIssues(originalCode, fixedCode, k) ==
  IF k > Len(importantKeywords) THEN << >>
  ELSE LET keyword == importantKeywords[k]
           originalCount == KeywordCount(originalCode, keyword)
           fixedCount == KeywordCount(fixedCode, keyword)
       IN  (IF originalCount # fixedCount
            THEN << [kind |-> "Keyword count changed", char |-> keyword, pos |-> -1,
                     original |-> originalCount, fixed |-> fixedCount] >>
            ELSE << >>)
           \o KeywordIssues(originalCode, fixedCode, k + 1)

checkSemanticChanges(originalCode, fixedCode) ==
  LET originalLines == LineCount(originalCode)
      fixedLines == LineCount(fixedCode)
  IN  (IF Abs(originalLines - fixedLines) > 10
       THEN << [kind |-> "Significant line count change", char |-> Undefined,
                pos |-> -1, original |-> originalLines, fixed |-> fixedLines] >>
       ELSE << >>)
      \o KeywordIssues(originalCode, fixedCode, 1)

\* validateSemantics without the syntax check of the fixed code
validateSemanticsNoSyntaxCheck(originalCode, fixedCode, originalParser, parser) ==
  LET semanticIssues == checkSemanticChanges(originalCode, fixedCode)
  IN  IF Len(semanticIssues) > 0
      THEN [isValid |-> FALSE, warnings |-> semanticIssues]
      ELSE [isValid |-> TRUE, warnings |-> << >>]

\* the syntax result of the original code is computed and not used; with
\* string arguments nothing in the try block throws
validateSemantics(originalCode, fixedCode, originalParser, parser) ==
  LET originalSyntax == validateSyntax(originalCode, originalParser)
      fixedSyntax == validateSyntax(fixedCode, parser)
  IN  IF ~fixedSyntax.isValid
      THEN [isValid |-> FALSE, warnings |-> fixedSyntax.warnings]
      ELSE LET semanticIssues == checkSemanticChanges(originalCode, fixedCode)
           IN  IF Len(semanticIssues) > 0
               THEN [isValid |-> FALSE, warnings |-> semanticIssues]
               ELSE [isValid |-> TRUE, warnings |-> << >>]

MaxPadding == 11

\* one line of code, followed by empty lines
SemanticBodies ==
  { KeywordText[importantKeywords[k]] : k \in 1..Len(importantKeywords) }
    \cup { << >>, <<"i","f","x">>, <<"_","i","f">>, <<"i","f","$">>,
           <<"i","f"," ","i","f">>, <<"(">> }
Paddings == {0, 1, MaxPadding - 1, MaxPadding}
SemanticBuffers ==
  { body \o [k \in 1..n |-> NL] : body \in SemanticBodies, n \in Paddings }

InitSemantics ==
  /\ Constructed
  /\ \E originalCode \in SemanticBuffers, fixedCode \in SemanticBuffers :
        ret = [NoCall EXCEPT !.code = originalCode, !.fixedCode = fixedCode]

ValidateSemantics(originalParser, parser) ==
  /\ ret.op = "none"
  /\ \E r \in { validateSemantics(ret.code, ret.fixedCode, originalParser, parser) } :
       ret' = [ret EXCEPT !.op = "validateSemantics", !.parser = parser,
                          !.isValid = r.isValid, !.warnings = r.warnings]
  /\ UNCHANGED <<contextCache, prev, validatorVars, registryVars>>

\* the caller has the result; the two buffers stay the ones under validation
ReturnSemantics ==
  /\ ret.op # "none"
  /\ ret' = [NoCall EXCEPT !.code = ret.code, !.fixedCode = ret.fixedCode]
  /\ UNCHANGED <<contextCache, prev, validatorVars, registryVars>>

NextSemantics ==
  \/ \E originalParser \in ParserVerdicts, parser \in ParserVerdicts :
        ValidateSemantics(originalParser, parser)
  \/ ReturnSemantics

SpecSemantics == InitSemantics /\ [][NextSemantics]_vars

(***************************************************************************)
(* The extraction helpers of globalFunction.jsx, applied to one buffer     *)
(***************************************************************************)
\* const lines = code.substring(0, i).split('\n'); line = lines.length;
\* column = lines[lines.length - 1].length + 1
LineColumnOf(code, i) ==
  LET lines == SplitLines(Substring(code, 0, i))
  IN  [line |-> Len(lines), column |-> Len(lines[Len(lines)]) + 1]

\* code.indexOf(indicator)
indexOf(code, indicator) ==
  LET hits == { i \in 0..(Len(code) - Len(indicator)) :
                  Slice(code, i, i + Len(indicator)) = indicator }
  IN  IF hits = {} THEN -1 ELSE CHOOSE i \in hits : \A j \in hits : i <= j

\* the body of the for loop of findEndOfFunction at offset st.i: the context
\* comes from the shared analyzer, which caches it
FindEndStep(code, st) ==
  CHOOSE next \in
    { IF a.threw THEN [st EXCEPT !.threw = TRUE, !.done = TRUE]
      ELSE IF a.context.inString \/ a.context.inComment
      THEN [st EXCEPT !.cache = a.cache, !.i = @ + 1]
      ELSE IF CharAt(code, st.i) = "{"
      THEN [st EXCEPT !.cache = a.cache, !.i = @ + 1,
                      !.stack = Append(@, "{")]
      ELSE IF CharAt(code, st.i) = "}"
      THEN \* stack.pop() of an empty array leaves it empty
           IF Len(st.stack) <= 1
           THEN [st EXCEPT !.cache = a.cache, !.stack = << >>,
                           !.value = st.i, !.done = TRUE]
           ELSE [st EXCEPT !.cache = a.cache, !.i = @ + 1,
                           !.stack = SubSeq(@, 1, Len(@) - 1)]
      ELSE [st EXCEPT !.cache = a.cache, !.i = @ + 1]
      : a \in { analyzePosition(st.cache, code,
                                LineColumnOf(code, st.i).line,
                                LineColumnOf(code, st.i).column) } } : TRUE

\* for (let i = start; i < code.length; i++)
RECURSIVE FindEndLoop(_, _)
FindEndLoop(code, st) ==
  IF st.done \/ st.i >= Len(code) THEN st
  ELSE CHOOSE r \in { FindEndLoop(code, next) : next \in { FindEndStep(code, st) } } : TRUE

findEndOfFunction(cache, code, start) ==
  FindEndLoop(code, [i |-> start, stack |-> << >>, cache |-> cache,
                     value |-> -1, done |-> FALSE, threw |-> FALSE])

\* an error in the try block is caught and the indicator returned
functionNode(cache, code, indicator, parser) ==
  LET startOfFunc == indexOf(code, indicator)
  IN  IF startOfFunc = -1
      THEN [value |-> << >>, startOfFunc |-> -1, endOfFunc |-> -1, cache |-> cache]
      ELSE CHOOSE r \in
        { IF end.threw \/ end.value = -1
          THEN [value |-> indicator, startOfFunc |-> startOfFunc,
                endOfFunc |-> end.value, cache |-> end.cache]
          ELSE [value |-> IF validateSyntax(Substring(code, startOfFunc, end.value + 1),
                                            parser).isValid
                          THEN Substring(code, startOfFunc, end.value + 1)
                          ELSE indicator,
                startOfFunc |-> startOfFunc, endOfFunc |-> end.value,
                cache |-> end.cache]
          : end \in { findEndOfFunction(cache, code, startOfFunc) } } : TRUE

\* code.match(/\b(var|let|const)\s+NAME\b/): the index of the leftmost
\* match, or -1
DeclarationMatch(code, variableName) ==
  LET hits ==
        { i \in 0..(Len(code) - 1) :
            \E keyword \in {"var", "let", "const"}, n \in 1..Len(code) :
               LET k == i + Len(KeywordText[keyword])
               IN  /\ k + n + Len(variableName) <= Len(code)
                   /\ WordBoundary(code, i)
                   /\ Slice(code, i, k) = KeywordText[keyword]
                   /\ \A j \in k..(k + n - 1) : CharAt(code, j) \in WhitespaceChars
                   /\ Slice(code, k + n, k + n + Len(variableName)) = variableName
                   /\ WordBoundary(code, k + n + Len(variableName)) }
  IN  IF hits = {} THEN -1 ELSE CHOOSE i \in hits : \A j \in hits : i <= j

\* String.prototype.trim
trim(code) ==
  LET kept == { k \in 1..Len(code) : code[k] \notin WhitespaceChars }
  IN  IF kept = {} THEN << >>
      ELSE SubSeq(code, CHOOSE k \in kept : \A j \in kept : k <= j,
                        CHOOSE k \in kept : \A j \in kept : k >= j)

\* the for loop of findEndOfVariableDeclaration from offset st.i on: it stops
\* at the first ; that the shared analyzer puts outside strings and comments
RECURSIVE DeclarationEndLoop(_, _)
DeclarationEndLoop(code, st) ==
  IF st.done \/ st.i >= Len(code) THEN st
  ELSE CHOOSE r \in
    { IF a.threw THEN [st EXCEPT !.threw = TRUE, !.done = TRUE]
      ELSE IF ~a.context.inString /\ ~a.context.inComment /\ CharAt(code, st.i) = ";"
      THEN [st EXCEPT !.cache = a.cache, !.declarationEndIndex = st.i + 1,
                      !.done = TRUE]
      ELSE DeclarationEndLoop(code, [st EXCEPT !.cache = a.cache, !.i = @ + 1])
      : a \in { analyzePosition(st.cache, code,
                                LineColumnOf(code, st.i).line,
                                LineColumnOf(code, st.i).column) } } : TRUE

\* found = FALSE stands for the empty string returned when nothing matches;
\* the line terminators of the prefix are \r\n, \r and \n
findEndOfVariableDeclaration(cache, code, variableName) ==
  LET declarationStartIndex == DeclarationMatch(code, variableName)
      prefix == Substring(code, 0, declarationStartIndex)
  IN  IF declarationStartIndex = -1
      THEN [found |-> FALSE, threw |-> FALSE, declaration |-> << >>,
            lineNumber |-> 0, cache |-> cache]
      ELSE CHOOSE r \in
        { [found |-> TRUE, threw |-> end.threw,
           declaration |-> trim(Substring(code, declarationStartIndex,
                                          end.declarationEndIndex)),
           lineNumber |->
             1 + Cardinality({ k \in 0..(Len(prefix) - 1) :
                                 \/ CharAt(prefix, k) = NL
                                 \/ CharAt(prefix, k) = "\r" /\ CharAt(prefix, k + 1) # NL }),
           cache |-> end.cache]
          : end \in { DeclarationEndLoop(code,
                        [i |-> declarationStartIndex,
                         declarationEndIndex |-> declarationStartIndex,
                         cache |-> cache, done |-> FALSE, threw |-> FALSE]) } } : TRUE

\* the validation of the declaration only logs; an error is caught and the
\* empty string returned
declarationNode(cache, code, indicator) ==
  CHOOSE r \in
    { IF extract.threw
      THEN [extract EXCEPT !.found = FALSE, !.declaration = << >>, !.lineNumber = 0]
      ELSE extract
      : extract \in { findEndOfVariableDeclaration(cache, code, indicator) } } : TRUE

MaxExtractLen == 4

ExtractIndicator == <<"f">>
ExtractVariable == <<"x">>

\* short buffers of braces and quotes, with and without the indicator, and
\* function bodies that hold a brace in a string or in a comment
FunctionBuffers ==
  Seqs({"f", "{", "}", DQ, NL}, MaxExtractLen)
    \cup { <<"f", "{", DQ, "}", DQ, "}">>,
           <<"f", "{", "/", "/", "}", NL, "}">>,
           <<"f", "{", "/", "*", "}", "*", "/", "}">>,
           <<"a", NL, "f", "{", "{", "}", "}", "}">> }

\* a declaration of x after some lines, with or without the space and the
\* semicolon, and declarations with a ; in a string or in a comment
DeclarationBuffers ==
  { pre \o <<"l", "e", "t">> \o gap \o <<"x">> \o body :
      pre \in { << >>, <<NL>>, <<"a">>, <<"a", NL, NL>> },
      gap \in { <<" ">>, << >>, <<" ", NL>> },
      body \in Seqs({";", DQ, "y", NL}, MaxPart) }
    \cup { <<"v", "a", "r", " ", "x", "=", DQ, ";", DQ, ";", "y", ";">>,
           <<"c", "o", "n", "s", "t", " ", "x", "/", "/", ";", NL, ";">>,
           <<"l", "e", "t", " ", "y", ";", NL, "l", "e", "t", " ", "x", ";">> }

InitExtract ==
  /\ Constructed
  /\ \E code \in FunctionBuffers \cup DeclarationBuffers :
        ret = [NoCall EXCEPT !.code = code]

\* the offset is converted to a line and a column as the extraction loops do,
\* and the pair is handed to getAbsolutePosition
GetAbsolutePosition(position) ==
  /\ ret.op = "none"
  /\ \E lc \in { LineColumnOf(ret.code, position) } :
       ret' = [ret EXCEPT !.op = "getAbsolutePosition", !.position = position,
                          !.line = lc.line, !.column = lc.column,
                          !.result = getAbsolutePosition(ret.code, lc.line, lc.column)]
  /\ UNCHANGED <<contextCache, prev, validatorVars, registryVars>>

FunctionNode(indicator, parser) ==
  /\ ret.op = "none"
  /\ \E r \in { functionNode(contextCache, ret.code, indicator, parser) } :
       /\ contextCache' = r.cache
       /\ ret' = [ret EXCEPT !.op = "functionNode", !.parser = parser,
                             !.position = r.startOfFunc,
                             !.result = [endOfFunc |-> r.endOfFunc,
                                         value |-> r.value]]
  /\ UNCHANGED <<prev, validatorVars, registryVars>>

DeclarationNode(indicator) ==
  /\ ret.op = "none"
  /\ \E r \in { declarationNode(contextCache, ret.code, indicator) } :
       /\ contextCache' = r.cache
       /\ ret' = [ret EXCEPT !.op = "declarationNode",
                             !.result = [found |-> r.found,
                                         declaration |-> r.declaration,
                                         lineNumber |-> r.lineNumber]]
  /\ UNCHANGED <<prev, validatorVars, registryVars>>

NextExtract ==
  \/ \E position \in 0..Len(ret.code) : GetAbsolutePosition(position)
  \/ \E parser \in ParserVerdicts : FunctionNode(ExtractIndicator, parser)
  \/ DeclarationNode(ExtractVariable)
  \/ ReturnScan

SpecExtract == InitExtract /\ [][NextExtract]_vars

(***************************************************************************)
(* FixerRegistry                                                           *)
(***************************************************************************)
\* Map.set and Map.delete
MapSet(map, key, value) ==
  [k \in DOMAIN map \cup {key} |-> IF k = key THEN value ELSE map[k]]

MapDelete(map, key) == [k \in DOMAIN map \ {key} |-> map[k]]

\* new FixerClass(ruleId, complexity): the constructor of FixerBase defaults
\* the complexity to 'simple'
NewFixer(FixerClass, ruleId, complexity) ==
  [ruleId |-> ruleId,
   complexity |-> IF complexity = Undefined THEN "simple" ELSE complexity,
   className |-> FixerClass.name,
   isFixerBase |-> FixerClass.extendsFixerBase]

\* register without the test for a fixer already stored under the ruleId
registerOverwrites(fs, info, fixer) ==
  IF ~fixer.isFixerBase \/ fixer.ruleId = ""
  THEN [threw |-> TRUE, fixers |-> fs, fixerInfo |-> info]
  ELSE [threw |-> FALSE,
        fixers |-> MapSet(fs, fixer.ruleId, fixer),
        fixerInfo |-> MapSet(info, fixer.ruleId,
                             [ruleId |-> fixer.ruleId,
                              complexity |-> IF fixer.complexity = Undefined
                                             THEN "simple" ELSE fixer.complexity,
                              modulePath |-> <<fixer.className>>,
                              enabled |-> TRUE])]

register(fs, info, fixer) ==
  IF ~fixer.isFixerBase \/ fixer.ruleId = ""
  THEN [threw |-> TRUE, fixers |-> fs, fixerInfo |-> info]
  ELSE IF fixer.ruleId \in DOMAIN fs
  THEN [threw |-> FALSE, fixers |-> fs, fixerInfo |-> info]
  ELSE [threw |-> FALSE,
        fixers |-> MapSet(fs, fixer.ruleId, fixer),
        fixerInfo |-> MapSet(info, fixer.ruleId,
                             [ruleId |-> fixer.ruleId,
                              complexity |-> IF fixer.complexity = Undefined
                                             THEN "simple" ELSE fixer.complexity,
                              modulePath |-> <<fixer.className>>,
                              enabled |-> TRUE])]

knownRules ==
  {"quotes", "semi", "no-unused-vars", "eol-last", "eqeqeq", "no-extra-semi",
   "no-trailing-spaces"}

\* a placeholder info for every known rule, over whatever info was there
registerExistingFixers(info) ==
  [k \in DOMAIN info \cup knownRules |->
     IF k \in knownRules
     THEN [ruleId |-> k, complexity |-> "simple",
           modulePath |-> <<"../existing/", k, ".js">>, enabled |-> TRUE]
     ELSE info[k]]

setFixerEnabled(info, ruleId, enabled) ==
  IF ruleId \notin DOMAIN info
  THEN [result |-> FALSE, fixerInfo |-> info]
  ELSE [result |-> TRUE,
        fixerInfo |-> [info EXCEPT ![ruleId].enabled = enabled]]

unregister(fs, info, ruleId) ==
  [result |-> ruleId \in DOMAIN fs,
   fixers |-> MapDelete(fs, ruleId),
   fixerInfo |-> MapDelete(info, ruleId)]

\* null is the empty sequence, a fixer the sequence that holds it
getFixer(fs, info, ruleId) ==
  IF ruleId \notin DOMAIN fs THEN << >>
  ELSE IF ruleId \in DOMAIN info /\ ~info[ruleId].enabled THEN << >>
  ELSE <<fs[ruleId]>>

\* info && info.enabled is undefined when the rule has no info
isFixable(fs, info, ruleId) ==
  IF ruleId \notin DOMAIN fs THEN FALSE
  ELSE IF ruleId \notin DOMAIN info THEN Undefined
  ELSE info[ruleId].enabled

\* the rules of the returned array
getFixableRules(fs, info) ==
  { ruleId \in DOMAIN fs : ruleId \in DOMAIN info /\ info[ruleId].enabled }

getStats(fs, info) ==
  LET total == Cardinality(DOMAIN fs)
      enabled == Cardinality({ k \in DOMAIN info : info[k].enabled })
  IN  [total |-> total,
       enabled |-> enabled,
       disabled |-> total - enabled,
       complexity |->
         [c \in { info[k].complexity : k \in DOMAIN info } |->
            Cardinality({ k \in DOMAIN info : info[k].complexity = c })]]

MaxDiscovering == 2

RuleIds == {"semi", "curly"}
FixerClasses ==
  { [name |-> "RuleFixer", extendsFixerBase |-> TRUE],
    [name |-> "NotAFixer", extendsFixerBase |-> FALSE] }
Complexities == {Undefined, "complex"}
Fixers ==
  { NewFixer(FixerClass, ruleId, complexity) :
      FixerClass \in FixerClasses, ruleId \in RuleIds \cup {""},
      complexity \in Complexities }

Register(fixer) ==
  /\ ret.op = "none"
  /\ \E r \in { register(fixers, fixerInfo, fixer) } :
       /\ fixers' = r.fixers
       /\ fixerInfo' = r.fixerInfo
       /\ ret' = [NoCall EXCEPT !.op = "register", !.ruleId = fixer.ruleId,
                                !.fixer = fixer, !.threw = r.threw]
  /\ UNCHANGED <<contextCache, prev, validatorVars, initialized, discovering,
                 discoveries>>

\* the error of the constructor or of register is logged and thrown again
RegisterFixer(ruleId, FixerClass, complexity) ==
  /\ ret.op = "none"
  /\ \E fixer \in { NewFixer(FixerClass, ruleId, complexity) } :
     \E r \in { register(fixers, fixerInfo, fixer) } :
       /\ fixers' = r.fixers
       /\ fixerInfo' = r.fixerInfo
       /\ ret' = [NoCall EXCEPT !.op = "registerFixer", !.ruleId = ruleId,
                                !.fixer = fixer, !.threw = r.threw]
  /\ UNCHANGED <<contextCache, prev, validatorVars, initialized, discovering,
                 discoveries>>

Unregister(ruleId) ==
  /\ ret.op = "none"
  /\ \E r \in { unregister(fixers, fixerInfo, ruleId) } :
       /\ fixers' = r.fixers
       /\ fixerInfo' = r.fixerInfo
       /\ ret' = [NoCall EXCEPT !.op = "unregister", !.ruleId = ruleId,
                                !.result = r.result]
  /\ UNCHANGED <<contextCache, prev, validatorVars, initialized, discovering,
                 discoveries>>

SetFixerEnabled(ruleId, enabled) ==
  /\ ret.op = "none"
  /\ \E r \in { setFixerEnabled(fixerInfo, ruleId, enabled) } :
       /\ fixerInfo' = r.fixerInfo
       /\ ret' = [NoCall EXCEPT !.op = "setFixerEnabled", !.ruleId = ruleId,
                                !.enabled = enabled, !.result = r.result]
  /\ UNCHANGED <<contextCache, prev, validatorVars, fixers, initialized, discovering,
                 discoveries>>

\* FixerRegistry.clear
ClearRegistry ==
  /\ ret.op = "none"
  /\ fixers' = << >>
  /\ fixerInfo' = << >>
  /\ initialized' = FALSE
  /\ discoveries' = 0
  /\ ret' = [NoCall EXCEPT !.op = "clear"]
  /\ UNCHANGED <<contextCache, prev, validatorVars, discovering>>

\* autoDiscoverFixers up to its await: registerExistingFixers has no await of
\* its own, so its body has run when the caller gets the promise
AutoDiscoverFixers ==
  /\ ret.op = "none"
  /\ IF initialized
     THEN UNCHANGED <<fixerInfo, discovering, discoveries>>
     ELSE /\ discovering < MaxDiscovering
          /\ fixerInfo' = registerExistingFixers(fixerInfo)
          /\ discovering' = discovering + 1
          /\ discoveries' = discoveries + 1
  /\ ret' = [NoCall EXCEPT !.op = "autoDiscoverFixers"]
  /\ UNCHANGED <<contextCache, prev, validatorVars, fixers, initialized>>

\* autoDiscoverFixers after its await, once the caller's code has run
ResumeDiscovery ==
  /\ ret.op = "none"
  /\ discovering > 0
  /\ discovering' = discovering - 1
  /\ initialized' = TRUE
  /\ UNCHANGED <<contextCache, ret, prev, validatorVars, fixers, fixerInfo,
                 discoveries>>

GetFixer(ruleId) ==
  /\ ret.op = "none"
  /\ ret' = [NoCall EXCEPT !.op = "getFixer", !.ruleId = ruleId,
                           !.result = getFixer(fixers, fixerInfo, ruleId)]
  /\ UNCHANGED <<contextCache, prev, validatorVars, registryVars>>

IsFixable(ruleId) ==
  /\ ret.op = "none"
  /\ ret' = [NoCall EXCEPT !.op = "isFixable", !.ruleId = ruleId,
                           !.result = isFixable(fixers, fixerInfo, ruleId)]
  /\ UNCHANGED <<contextCache, prev, validatorVars, registryVars>>

GetFixableRules ==
  /\ ret.op = "none"
  /\ ret' = [NoCall EXCEPT !.op = "getFixableRules",
                           !.result = getFixableRules(fixers, fixerInfo)]
  /\ UNCHANGED <<contextCache, prev, validatorVars, registryVars>>

GetStats ==
  /\ ret.op = "none"
  /\ ret' = [NoCall EXCEPT !.op = "getStats",
                           !.result = getStats(fixers, fixerInfo)]
  /\ UNCHANGED <<contextCache, prev, validatorVars, registryVars>>

NextRegistry ==
  \/ \E fixer \in Fixers : Register(fixer)
  \/ \E ruleId \in RuleIds, FixerClass \in FixerClasses, complexity \in Complexities :
        RegisterFixer(ruleId, FixerClass, complexity)
  \/ \E ruleId \in RuleIds : Unregister(ruleId)
  \/ \E ruleId \in RuleIds, enabled \in BOOLEAN : SetFixerEnabled(ruleId, enabled)
  \/ ClearRegistry
  \/ AutoDiscoverFixers
  \/ ResumeDiscovery
  \/ \E ruleId \in RuleIds : GetFixer(ruleId)
  \/ \E ruleId \in RuleIds : IsFixable(ruleId)
  \/ GetFixableRules
  \/ GetStats
  \/ Return

SpecRegistry == Init /\ [][NextRegistry]_vars

(***************************************************************************)
(* What the buffers are, read off their characters alone                   *)
(***************************************************************************)
\* 0-based index of the first ch at or after from, -1 if there is none
RECURSIVE IndexFrom(_, _, _)
IndexFrom(code, ch, from) ==
  IF from >= Len(code) THEN -1
  ELSE IF CharAt(code, from) = ch THEN from ELSE IndexFrom(code, ch, from + 1)

CountOf(code, ch) == Cardinality({k \in 1..Len(code) : code[k] = ch})

Mentions(code, chars) == \E k \in 1..Len(code) : code[k] \in chars

\* 0-based index of the first "${" at or after from, -1 if there is none
RECURSIVE SubstitutionFrom(_, _)
SubstitutionFrom(code, from) ==
  IF from + 1 >= Len(code) THEN -1
  ELSE IF CharAt(code, from) = "$" /\ CharAt(code, from + 1) = "{" THEN from
       ELSE SubstitutionFrom(code, from + 1)

\* 0-based index of the } that closes a { opened before i, -1 if there is none
RECURSIVE MatchingBrace(_, _, _)
MatchingBrace(code, i, depth) ==
  IF i >= Len(code) THEN -1
  ELSE IF CharAt(code, i) = "{" THEN MatchingBrace(code, i + 1, depth + 1)
  ELSE IF CharAt(code, i) = "}"
       THEN (IF depth = 0 THEN i ELSE MatchingBrace(code, i + 1, depth - 1))
       ELSE MatchingBrace(code, i + 1, depth)

\* a buffer that is one template literal with one substitution, no escapes
TplOpen(code) == SubstitutionFrom(code, 0)
TplClose(code) == MatchingBrace(code, TplOpen(code) + 2, 0)
TplBody(code) == Slice(code, TplOpen(code) + 2, TplClose(code))

IsTemplateLiteral(code) ==
  /\ Len(code) >= 2
  /\ CharAt(code, 0) = BT /\ CharAt(code, Len(code) - 1) = BT
  /\ CountOf(code, BT) = 2 /\ CountOf(code, BS) = 0
  /\ TplOpen(code) >= 1
  /\ SubstitutionFrom(code, TplOpen(code) + 2) = -1
  /\ TplClose(code) >= 0

TplTextOffsets(code) ==
  (1..TplOpen(code)) \cup ((TplClose(code) + 1)..(Len(code) - 1))

TplSubstitutionOffsets(code) == (TplOpen(code) + 2)..TplClose(code)

\* the number of backslashes right before index i
RECURSIVE BackslashRun(_, _)
BackslashRun(code, i) ==
  IF i >= 1 /\ CharAt(code, i - 1) = BS THEN 1 + BackslashRun(code, i - 1) ELSE 0

\* 0-based index of the first quote q after from that no backslash escapes
RECURSIVE ClosingQuote(_, _, _)
ClosingQuote(code, q, from) ==
  IF from >= Len(code) THEN -1
  ELSE IF CharAt(code, from) = q /\ BackslashRun(code, from) % 2 = 0 THEN from
       ELSE ClosingQuote(code, q, from + 1)

PlainChars == {"a", "b", "c", "x", "=", " "}

\* 0-based index of the first quote character, after plain code only; -1 otherwise
RECURSIVE FirstQuote(_, _)
FirstQuote(code, i) ==
  IF i >= Len(code) THEN -1
  ELSE IF CharAt(code, i) \in {SQ, DQ} THEN i
  ELSE IF CharAt(code, i) \in PlainChars THEN FirstQuote(code, i + 1)
  ELSE -1

\* the bracket characters of the buffer with every adjacent matching pair removed
BracketsOf(code) == SelectSeq(code, LAMBDA c : c \in {"(", ")", "[", "]", "{", "}"})

RECURSIVE CancelPairs(_)
CancelPairs(bs) ==
  IF \E k \in 1..(Len(bs) - 1) : <<bs[k], bs[k + 1]>> \in {<<"(", ")">>, <<"[", "]">>, <<"{", "}">>}
  THEN LET k == CHOOSE j \in 1..(Len(bs) - 1) :
                  <<bs[j], bs[j + 1]>> \in {<<"(", ")">>, <<"[", "]">>, <<"{", "}">>}
       IN  CancelPairs(SubSeq(bs, 1, k - 1) \o SubSeq(bs, k + 2, Len(bs)))
  ELSE bs

Balanced(code) == CancelPairs(BracketsOf(code)) = << >>

\* the classification of the location by a scan of this buffer
FreshContext(code, line, column) ==
  analyzeAbsolutePosition(code, getAbsolutePosition(code, line, column).value)

Vetoed(context) ==
  \/ context.inString \/ context.inComment \/ context.inRegex
  \/ (context.inTemplate /\ ~context.inTemplateExpression)

(***************************************************************************)
(* Properties of the classifier (under SpecScan)                           *)
(***************************************************************************)
Classified == ret.op = "analyzeAbsolutePosition"

AllFlagsFalse(context) ==
  /\ ~context.inString /\ ~context.inComment /\ ~context.inRegex
  /\ ~context.inTemplate /\ ~context.inTemplateExpression

C6_RegexHeuristic ==
  Classified =>
    /\ \A lead \in RegexLeads, body \in RegexBodies :
         ( /\ ret.code = lead \o <<"/">> \o body \o <<"/">>
           /\ ret.position \in (Len(lead) + 1)..(Len(lead) + 1 + Len(body)) )
           => ret.context.inRegex
    /\ (ret.code = ExDivision /\ ret.position = 7) => ~ret.context.inRegex

\* C7, as stated: in a template literal every offset of the text is
\* inTemplate and not inTemplateExpression, and every offset inside the ${...}
\* substitution, up to the brace that closes it, is inTemplate and
\* inTemplateExpression.
C7_TemplateSubstitution ==
  ( /\ Classified
    /\ IsTemplateLiteral(ret.code)
    /\ ~Mentions(TplBody(ret.code), {SQ, DQ}) )
    => /\ ret.position \in TplTextOffsets(ret.code) =>
            ret.context.inTemplate /\ ~ret.context.inTemplateExpression
       /\ ret.position \in TplSubstitutionOffsets(ret.code) =>
            ret.context.inTemplate /\ ret.context.inTemplateExpression

\* C7, as amended: the same, for a substitution whose body holds no brace (so
\* that the first } after ${ is the one that closes it).
C7_TemplateSubstitutionFlat ==
  ( /\ Classified
    /\ IsTemplateLiteral(ret.code)
    /\ ~Mentions(TplBody(ret.code), {"{", "}"}) )
    => /\ ret.position \in TplTextOffsets(ret.code) =>
            ret.context.inTemplate /\ ~ret.context.inTemplateExpression
       /\ ret.position \in TplSubstitutionOffsets(ret.code) =>
            ret.context.inTemplate /\ ret.context.inTemplateExpression

\* the offset after the substitution of `a${b}c`, back in the text
C7_Witness ==
  /\ Classified
  /\ ret.code = ExTemplate
  /\ ret.position = 6
  /\ ret.context.inTemplate /\ ~ret.context.inTemplateExpression

\* C8: inside a double-quoted string a single quote does not change the string
\* state, and symmetrically: every offset between the opening quote and the
\* quote that closes it is inString with stringChar the opening quote.
C8_QuoteToggling ==
  (Classified /\ FirstQuote(ret.code, 0) >= 0) =>
    LET open == FirstQuote(ret.code, 0)
        q == CharAt(ret.code, open)
        close == ClosingQuote(ret.code, q, open + 1)
        last == IF close = -1 THEN Len(ret.code) ELSE close
    IN  ret.position \in (open + 1)..last =>
          ret.context.inString /\ ret.context.stringChar = q

\* the offset after the nested 'b of "a 'b' c"
C8_Witness ==
  /\ Classified
  /\ ret.code = ExQuotes
  /\ ret.position = 5
  /\ ret.context.inString /\ ret.context.stringChar = DQ

\* C11: the returned context has at most one of inString, inComment, inRegex,
\* inTemplate true, and inTemplateExpression only together with inTemplate.
C11_ExclusiveFlags ==
  Classified =>
    LET c == ret.context
    IN  /\ Cardinality({f \in {"inString", "inComment", "inRegex", "inTemplate"} : c[f]}) <= 1
        /\ c.inTemplateExpression => c.inTemplate

\* the offset after // inside an open double-quoted string: inString alone
C11_Witness ==
  /\ Classified
  /\ ret.code = <<DQ, "/", "/">>
  /\ ret.position = 3
  /\ ret.context.inString /\ ~ret.context.inComment

(***************************************************************************)
(* Properties of the shared instance (under Spec)                          *)
(***************************************************************************)
CallPosition == getAbsolutePosition(ret.code, ret.line, ret.column).value

\* C1: whatever calls came before, analyzePosition(B, line, column) returns the
\* context a fresh scan of B gives at that location.
C1_CachingUnobservable ==
  (ret.op = "analyzePosition" /\ ~ret.threw)
    => ret.context = FreshContext(ret.code, ret.line, ret.column)

\* C2: safeReplace at a location inside a string, a comment, a regex or
\* template text fails and returns the buffer unchanged, whatever calls came
\* before.
C2_UnsafeLocationRejected ==
  ( /\ ret.op = "safeReplace"
    /\ ~PositionThrows(ret.code, ret.line)
    /\ Vetoed(FreshContext(ret.code, ret.line, ret.column)) )
    => ~ret.success /\ ret.outCode = ret.code

\* C3: every result of safeReplace is either a failure with the buffer
\* unchanged, or a success with the spliced buffer and no warnings, where the
\* spliced buffer was accepted by both parsers and has balanced brackets.
C3_SafeReplaceOutcome ==
  ret.op = "safeReplace" =>
    \/ ~ret.success /\ ret.outCode = ret.code
    \/ /\ ret.success
       /\ ret.outCode = Splice(ret.code, CallPosition, ret.length, ret.replacement)
       /\ ret.warnings = << >>
       /\ ret.parser = "Accepts"
       /\ Balanced(ret.outCode)

\* a splice at a safe location that both parsers accept but that leaves a
\* bracket open: rejected, the buffer returned unchanged
C3_Witness ==
  /\ ret.op = "safeReplace"
  /\ ret.parser = "Accepts"
  /\ ret.message = "Replacement would create invalid syntax"
  /\ ~Balanced(Splice(ret.code, CallPosition, ret.length, ret.replacement))
  /\ ~ret.success /\ ret.outCode = ret.code

\* replacement bounds that do not lie in the buffer: a negative length, a range
\* that ends after the buffer, or a column after the end of the addressed line
MalformedBounds(code, line, column, length) ==
  \/ length < 0
  \/ /\ ~PositionThrows(code, line)
     /\ getAbsolutePosition(code, line, column).value + length > Len(code)
  \/ /\ line <= Len(SplitLines(code))
     /\ column > Len(SplitLines(code)[line]) + 1

\* C15: safeReplace with malformed replacement bounds fails and returns the
\* buffer it was given.
C15_MalformedBoundsRejected ==
  ( /\ ret.op = "safeReplace"
    /\ MalformedBounds(ret.code, ret.line, ret.column, ret.length) )
    => ~ret.success /\ ret.outCode = ret.code

\* C5: analyzePosition returns a context for every line and column and never
\* raises an error.
C5_ClassificationTotal == ret.op = "analyzePosition" => ~ret.threw

\* the offset o follows // or /* inside a quoted or template literal that opens
\* the buffer
FollowsMarkerInLiteral(code, o) ==
  /\ CharAt(code, 0) \in {SQ, DQ, BT}
  /\ CountOf(code, BS) = 0
  /\ LET close == ClosingQuote(code, CharAt(code, 0), 1)
     IN  close = -1 \/ o <= close
  /\ o >= 3
  /\ CharAt(code, o - 2) = "/" /\ CharAt(code, o - 1) \in {"/", "*"}

\* C9: at an offset that follows // or /* inside a string or template literal
\* the returned context is not inComment and findSafeFixZone gives no comment
\* reason.
C9_NoCommentInsideLiteral ==
  ( /\ ret.op = "findSafeFixZone" /\ ~ret.threw
    /\ FollowsMarkerInLiteral(ret.code, CallPosition) )
    => ~ret.context.inComment /\ ret.reason[1] # "comment"

C12_Idempotent ==
  ( /\ ret.op = "analyzePosition" /\ prev.op = "analyzePosition"
    /\ ret.code = prev.code /\ ret.line = prev.line /\ ret.column = prev.column )
    => ret.threw = prev.threw /\ ret.context = prev.context

(***************************************************************************)
(* Properties of the fix history (under SpecHistory)                       *)
(***************************************************************************)
\* C13: after n recordFix calls (n is the clock, which each call advances by
\* one) the history holds min(n, 100) entries, and they are the most recent
\* recorded fixes in call order: entry k is the fix of call n - size + k.
\* From the 101st call on the first fix is gone and the newest is last.
C13_BoundedFifo ==
  LET n == clock
      size == Len(fixHistory)
  IN  /\ size <= 100
      /\ size = IF n < 100 THEN n ELSE 100
      /\ \A k \in 1..size : fixHistory[k].timestamp = n - size + k
      /\ n >= 101 => /\ \A k \in 1..size : fixHistory[k].timestamp # 1
                     /\ fixHistory[size].timestamp = n

\* the 101st call has returned: the second fix is now the oldest
C13_Witness ==
  /\ clock = 101
  /\ ret.op = "recordFix"
  /\ Len(fixHistory) = 100
  /\ fixHistory[1].timestamp = 2
  /\ fixHistory[100].timestamp = 101

(***************************************************************************)
(* Properties of the snapshots and of clearing (under SpecValidator)       *)
(***************************************************************************)
\* C14: compareWithSnapshot fails exactly when nothing is stored under the
\* id; for a stored id, whatever the stored content (the empty string
\* included), identical tells whether the buffer equals the stored content
\* and hasChanges is its negation.
C14_CompareWithSnapshot ==
  ret.op = "compareWithSnapshot" =>
    /\ ret.threw <=> ret.snapshotId \notin DOMAIN codeSnapshots
    /\ ret.snapshotId \in DOMAIN codeSnapshots =>
         /\ ret.identical = (ret.code = codeSnapshots[ret.snapshotId])
         /\ ret.hasChanges = ~ret.identical

\* C18 as stated: either cache-clear operation leaves the fix history and
\* the snapshots as they were.
C18_ClearChangesOnlyCache ==
  [][ (ret.op = "none" /\ ret'.op \in {"clearCache", "clearUtilityCache"})
        => fixHistory' = fixHistory /\ codeSnapshots' = codeSnapshots ]_vars

\* C18, amended: ContextAnalyzer.clearCache empties the classifier cache and
\* leaves the fix history and the snapshots as they were; clearUtilityCache
\* empties the classifier cache, the fix history and the snapshots.
C18_ClearFrame ==
  [][ /\ (ret.op = "none" /\ ret'.op = "clearCache")
          => /\ contextCache' = << >>
             /\ fixHistory' = fixHistory /\ codeSnapshots' = codeSnapshots
      /\ (ret.op = "none" /\ ret'.op = "clearUtilityCache")
          => /\ contextCache' = << >>
             /\ fixHistory' = << >> /\ codeSnapshots' = << >> ]_vars

\* clearCache has returned and the recorded fix and the snapshot are there
C18_Witness ==
  /\ ret.op = "clearCache"
  /\ contextCache = << >>
  /\ fixHistory # << >>
  /\ codeSnapshots # << >>

(***************************************************************************)
(* Properties of the syntax validation (under SpecSyntax)                  *)
(***************************************************************************)
InWarnings(warnings, kind, char, pos) ==
  \E j \in 1..Len(warnings) :
     warnings[j] = [kind |-> kind, char |-> char, pos |-> pos]

\* C16: whatever the verdicts of new Function and of the parser, the warnings
\* of validateSyntax contain every diagnostic of the bracket scan of the
\* buffer.
C16_BracketDiagnosticsSurfaced ==
  ret.op = "validateSyntax" =>
    \A k \in 1..Len(BracketIssues(ret.code)) :
       LET d == BracketIssues(ret.code)[k]
       IN  InWarnings(ret.warnings, d.kind, d.char, d.pos)

\* C20: the bracket scan reports, with its index, every closer that no opener
\* of its kind precedes and every opener that no closer of its kind follows,
\* and it yields no bracket warning exactly when the brackets of the buffer
\* are balanced.
C20_BracketScan ==
  ret.op = "checkCommonSyntaxIssues" =>
    LET code == ret.code
    IN  /\ \A i \in 0..(Len(code) - 1) :
             ( /\ CharAt(code, i) \in Closers
               /\ \A j \in 0..(i - 1) :
                    ~(CharAt(code, j) \in Openers /\ brackets[CharAt(code, j)] = CharAt(code, i)) )
               => InWarnings(ret.warnings, "Unmatched bracket", CharAt(code, i), i)
        /\ \A i \in 0..(Len(code) - 1) :
             ( /\ CharAt(code, i) \in Openers
               /\ \A j \in (i + 1)..(Len(code) - 1) :
                    CharAt(code, j) # brackets[CharAt(code, i)] )
               => InWarnings(ret.warnings, "Unclosed bracket", CharAt(code, i), i)
        /\ (\A j \in 1..Len(ret.warnings) : ret.warnings[j].kind = "Syntax error")
             <=> Balanced(code)

(***************************************************************************)
(* Properties of the semantic validation (under SpecSemantics)             *)
(***************************************************************************)
\* the words of the buffer: its maximal runs of letters, digits and _
RECURSIVE WordsOf(_, _, _)
WordsOf(code, k, word) ==
  IF k > Len(code) THEN (IF word = << >> THEN << >> ELSE <<word>>)
  ELSE IF code[k] \in RegexWordChars THEN WordsOf(code, k + 1, Append(word, code[k]))
  ELSE (IF word = << >> THEN << >> ELSE <<word>>) \o WordsOf(code, k + 1, << >>)

Occurrences(code, keyword) ==
  LET words == WordsOf(code, 1, << >>)
  IN  Cardinality({ k \in 1..Len(words) : words[k] = KeywordText[keyword] })

NumberOfLines(code) == CountOf(code, NL) + 1

KeywordNames == { importantKeywords[k] : k \in 1..Len(importantKeywords) }

ChangedKeywords(before, after) ==
  { keyword \in KeywordNames : Occurrences(before, keyword) # Occurrences(after, keyword) }

LineDrift(before, after) ==
  \/ NumberOfLines(before) - NumberOfLines(after) > 10
  \/ NumberOfLines(after) - NumberOfLines(before) > 10

\* C17: validateSemantics(before, after) is valid exactly when `after` passes
\* validateSyntax, the line counts differ by at most 10 and every keyword
\* occurs as often in both; when `after` fails the syntax check the warnings
\* are those of the syntax check, with no drift warning; otherwise there is
\* one warning for each keyword whose count changed, with both counts, and
\* one more if the line counts differ by more than 10.
C17_ValidateSemantics ==
  ret.op = "validateSemantics" =>
    LET before == ret.code
        after == ret.fixedCode
        syntax == validateSyntax(after, ret.parser)
        changed == ChangedKeywords(before, after)
        drift == LineDrift(before, after)
        warnings == ret.warnings
    IN  /\ ret.isValid <=> (syntax.isValid /\ ~drift /\ changed = {})
        /\ ~syntax.isValid =>
             /\ warnings = syntax.warnings
             /\ \A j \in 1..Len(warnings) :
                  warnings[j].kind \notin {"Keyword count changed",
                                           "Significant line count change"}
        /\ syntax.isValid =>
             /\ Len(warnings) = Cardinality(changed) + (IF drift THEN 1 ELSE 0)
             /\ \A keyword \in changed :
                  \E j \in 1..Len(warnings) :
                     warnings[j] = [kind |-> "Keyword count changed",
                                    char |-> keyword, pos |-> -1,
                                    original |-> Occurrences(before, keyword),
                                    fixed |-> Occurrences(after, keyword)]
             /\ drift => warnings[1].kind = "Significant line count change"

\* a fix that changed the line count by 11 and replaced one keyword by
\* another is invalid, with three warnings
C17_Witness ==
  /\ ret.op = "validateSemantics"
  /\ ~ret.isValid
  /\ ret.parser = "Accepts"
  /\ LineDrift(ret.code, ret.fixedCode)
  /\ Cardinality(ChangedKeywords(ret.code, ret.fixedCode)) = 2
  /\ Len(ret.warnings) = 3

(***************************************************************************)
(* Properties of the registry (under SpecRegistry)                         *)
(***************************************************************************)
\* the fixer stored under a ruleId is a fixer of that rule, and the rule has
\* an info entry of its own with an enabled flag
RegistryConsistent ==
  \A ruleId \in DOMAIN fixers :
     /\ fixers[ruleId].ruleId = ruleId
     /\ ruleId \in DOMAIN fixerInfo
     /\ fixerInfo[ruleId].ruleId = ruleId
     /\ fixerInfo[ruleId].enabled \in BOOLEAN

\* a call of register or registerFixer for a ruleId that has a fixer
RegistersAgain ==
  /\ ret.op = "none"
  /\ ret'.op \in {"register", "registerFixer"}
  /\ ret'.ruleId \in DOMAIN fixers

\* C19: in every state of the registry each stored fixer is stored under its
\* own ruleId and has an info entry with an enabled flag, and registering a
\* ruleId that already has a fixer changes neither the stored fixers nor the
\* info entries (the enabled flags included).
C19_UniqueRuleIds ==
  /\ []RegistryConsistent
  /\ [][RegistersAgain => (fixers' = fixers /\ fixerInfo' = fixerInfo)]_vars

\* a second fixer, of another complexity, was offered for a rule whose fixer
\* is disabled: the first fixer is the one stored and it is still disabled
C19_Witness ==
  /\ ret.op \in {"register", "registerFixer"}
  /\ ~ret.threw
  /\ ret.ruleId \in DOMAIN fixers
  /\ fixers[ret.ruleId] # ret.fixer
  /\ ~fixerInfo[ret.ruleId].enabled

(***************************************************************************)
(* Further properties of the classifier (under SpecScan)                   *)
(***************************************************************************)
\* C25: no context returned by analyzeAbsolutePosition has inRegex set: the
\* / that sets the scanner's regex state also passes the regex-end test.
C25_NeverInRegex == Classified => ~ret.context.inRegex

\* the offset lies after a / that couldBeRegexStart accepts, outside any
\* comment, string or template
C25_Witness ==
  /\ Classified
  /\ ret.position > 0 /\ ret.position <= Len(ret.code)
  /\ CharAt(ret.code, ret.position - 1) = "/"
  /\ couldBeRegexStart(ret.code, ret.position - 1)
  /\ AllFlagsFalse(ret.context)

\* the offset of the first */ at or after offset k, or -1
RECURSIVE FirstCommentEnd(_, _)
FirstCommentEnd(code, k) ==
  IF k + 1 >= Len(code) THEN -1
  ELSE IF CharAt(code, k) = "*" /\ CharAt(code, k + 1) = "/" THEN k
  ELSE FirstCommentEnd(code, k + 1)

\* the buffer opens with /*, a */ follows the opener, and no / comes after it
OneLeadingComment(code) ==
  /\ CharAt(code, 0) = "/" /\ CharAt(code, 1) = "*"
  /\ FirstCommentEnd(code, 2) >= 0
  /\ ~Mentions(Slice(code, FirstCommentEnd(code, 2) + 2, Len(code)), {"/"})

\* C23: in a buffer that opens with /*, every offset after the opener and up
\* to the first */ that follows it is inside a multi-line comment, and every
\* offset after that */ is outside any comment, whatever the comment holds.
C23_FirstCommentEndCloses ==
  (Classified /\ OneLeadingComment(ret.code)) =>
    LET end == FirstCommentEnd(ret.code, 2)
    IN  /\ (ret.position >= 1 /\ ret.position <= end)
           => ret.context.inComment /\ ret.context.commentType = "multi"
        /\ ret.position >= end + 2 => ~ret.context.inComment

(***************************************************************************)
(* Properties of the extraction helpers (under SpecExtract)                *)
(***************************************************************************)
\* the lengths of the lines before line number `line`, each with its newline
RECURSIVE LengthOfLinesBefore(_, _)
LengthOfLinesBefore(lines, line) ==
  IF line <= 1 THEN 0
  ELSE LengthOfLinesBefore(lines, line - 1) + Len(lines[line - 1]) + 1

\* C24: an offset of the buffer, converted to the line and column of the end
\* of its prefix and back by getAbsolutePosition, is the same offset, and it
\* is the sum of the lengths of the preceding lines, each plus one, plus the
\* column minus one.
C24_PositionRoundTrip ==
  ret.op = "getAbsolutePosition" =>
    /\ ret.line = CountOf(Slice(ret.code, 0, ret.position), NL) + 1
    /\ ~ret.result.threw
    /\ ret.result.value = ret.position
    /\ ret.position
         = LengthOfLinesBefore(SplitLines(ret.code), ret.line) + (ret.column - 1)

\* an offset inside the third line of a buffer
C24_Witness ==
  /\ ret.op = "getAbsolutePosition"
  /\ ret.line = 3 /\ ret.column = 2
  /\ ret.result.value = ret.position
  /\ ret.position = Len(ret.code)

\* the brace at offset i counts: the classifier reports neither a string nor
\* a comment there
Counted(code, i, brace) ==
  /\ CharAt(code, i) = brace
  /\ ~analyzeAbsolutePosition(code, i).inString
  /\ ~analyzeAbsolutePosition(code, i).inComment

CountedIn(code, from, to, brace) ==
  Cardinality({ j \in from..to : Counted(code, j, brace) })

\* the offsets of the } that balance the braces counted from `start` on
MatchingEnds(code, start) ==
  { i \in start..(Len(code) - 1) :
      /\ Counted(code, i, "}")
      /\ CountedIn(code, start, i, "{") >= 1
      /\ CountedIn(code, start, i, "{") = CountedIn(code, start, i, "}") }

\* C21: when the indicator occurs in the buffer, findEndOfFunction returns
\* the offset of the first } at which as many { as } have been counted since
\* the indicator, at least one, and -1 when there is no such }.
C21_EndAtMatchingBrace ==
  (ret.op = "functionNode" /\ ret.position >= 0) =>
    LET ends == MatchingEnds(ret.code, ret.position)
    IN  /\ ends = {} => ret.result.endOfFunc = -1
        /\ ends # {} => /\ ret.result.endOfFunc \in ends
                        /\ \A i \in ends : ret.result.endOfFunc <= i

\* the offsets, from `start` on, of the ; outside strings and comments
DeclarationEnds(code, start) ==
  { i \in start..(Len(code) - 1) : Counted(code, i, ";") }

\* C22: extractDeclaration returns empty when nothing in the buffer declares
\* the variable; otherwise it returns a non-empty fragment that starts at
\* the declaration keyword, and ends with the first ; outside strings and
\* comments when there is one, together with the line of the keyword: one
\* plus the number of newlines before it.
C22_ExtractDeclaration ==
  ret.op = "declarationNode" =>
    LET start == DeclarationMatch(ret.code, ExtractVariable)
        ends == DeclarationEnds(ret.code, start)
        fragment == ret.result.declaration
    IN  /\ start = -1 => ~ret.result.found
        /\ start >= 0 =>
             /\ ret.result.found
             /\ ret.result.lineNumber = CountOf(Slice(ret.code, 0, start), NL) + 1
             /\ fragment # << >>
             /\ fragment = Slice(ret.code, start, start + Len(fragment))
             /\ ends # {} =>
                  /\ start + Len(fragment) - 1 \in ends
                  /\ \A i \in ends : start + Len(fragment) - 1 <= i

(***************************************************************************)
(* Properties of disabling, discovery and the statistics (SpecRegistry)    *)
(***************************************************************************)
\* the rule has a registered fixer that setFixerEnabled has disabled
Disabled(ruleId) ==
  /\ ruleId \in DOMAIN fixers
  /\ ruleId \in DOMAIN fixerInfo
  /\ ~fixerInfo[ruleId].enabled

\* the call that has just been made re-enables, or removes, the rule's fixer
Releases(ruleId) ==
  \/ ret'.op = "setFixerEnabled" /\ ret'.ruleId = ruleId /\ ret'.enabled
  \/ ret'.op = "unregister" /\ ret'.ruleId = ruleId
  \/ ret'.op = "clear"

\* what the queries answer about a disabled fixer
HiddenFromQueries(ruleId) ==
  /\ (ret.op = "getFixer" /\ ret.ruleId = ruleId) => ret.result = << >>
  /\ (ret.op = "isFixable" /\ ret.ruleId = ruleId) => ret.result = FALSE
  /\ ret.op = "getFixableRules" => ruleId \notin ret.result

\* C26: while a registered fixer is disabled, getFixer returns null,
\* isFixable is false and getFixableRules leaves the rule out, and the fixer
\* stays disabled over every step other than setFixerEnabled(ruleId, true),
\* unregister(ruleId) and clear(), autoDiscoverFixers included.
C26_DisabledUntilReleased ==
  /\ [](\A ruleId \in RuleIds : Disabled(ruleId) => HiddenFromQueries(ruleId))
  /\ [][\A ruleId \in RuleIds :
          (Disabled(ruleId) /\ ~Releases(ruleId)) => Disabled(ruleId)']_vars

\* C27: registerExistingFixers runs at most once between two calls of
\* clear(), however the calls of autoDiscoverFixers interleave, and a call of
\* autoDiscoverFixers made when initialized is true changes nothing in the
\* registry.
C27_DiscoveryRunsOnce ==
  /\ [](discoveries <= 1)
  /\ [][(initialized /\ ret.op = "none" /\ ret'.op = "autoDiscoverFixers")
          => UNCHANGED <<fixers, fixerInfo, initialized>>]_vars

\* C28: the statistics are consistent: total is the number of registered
\* fixers, enabled lies between 0 and total, disabled is not negative,
\* enabled and disabled add up to total, and so do the complexity counts.
RECURSIVE SumOver(_, _)
SumOver(f, keys) ==
  IF keys = {} THEN 0
  ELSE LET k == CHOOSE x \in keys : TRUE
       IN  f[k] + SumOver(f, keys \ {k})

C28_StatsConsistent ==
  ret.op = "getStats" =>
    LET stats == ret.result
    IN  /\ stats.total = Cardinality(DOMAIN fixers)
        /\ 0 <= stats.enabled /\ stats.enabled <= stats.total
        /\ stats.disabled >= 0
        /\ stats.enabled + stats.disabled = stats.total
        /\ SumOver(stats.complexity, DOMAIN stats.complexity) = stats.total

=============================================================================
